---- MODULE Spec2Model ----
(***************************************************************************)
(* Model of api/index.py: a FastAPI application with four endpoints        *)
(* (trigger-capture, check-trigger, upload, images) over a Postgres        *)
(* database (asyncpg) and a blob store.  Every request is served by a      *)
(* coroutine; each `await` on the database is one step, so statements of   *)
(* different requests interleave.                                          *)
(***************************************************************************)
EXTENDS Integers, Sequences, FiniteSets, TLC

\* ------------------------------------------------------------------ bounds
NumProc == 2        \* requests that can be in flight at once
MaxUploads == 2     \* upload requests with a body that are ever received
MaxClock == 1       \* readings of the wall clock: 0..MaxClock
MaxFailures == 1    \* storage / blob failures injected in one behaviour
MaxLog == 3         \* responses kept by the access log when it keeps a history

Procs == 1..NumProc

\* ------------------------------------------------------------- environment
API_KEY == "secret"
Keys == {"secret", "wrong", "missing"}
Ops == {"trigger_capture", "check_trigger", "upload_image", "get_images"}
Bodies == {<<>>, <<255>>}

VARIABLES
    pc,              \* pc[p]: where request p is in its handler ("idle": no request)
    op,              \* op[p]: the endpoint of request p
    key,             \* key[p]: the x-api-key header of request p
    body,            \* body[p]: the request body (a sequence of bytes)
    conn,            \* conn[p]: "none" or "open", the handler's local conn
    trigger_status,  \* check_trigger's local
    utc_now,         \* upload_image's local
    image_url,       \* upload_image's local
    records,         \* get_images's local
    tables,          \* whether the two tables exist in the database
    control,         \* rows of camera_control
    images,          \* rows of motion_images, in insertion order
    blobs,           \* objects in the blob store
    leaked,          \* connections opened and never closed by a finished request
    failures,        \* failures injected so far
    clock,           \* the last reading of datetime.now
    nUploads,        \* upload requests received so far
    okUploads,       \* upload requests answered 201 so far
    pending,         \* a trigger update committed and no poll answered true since
    logCap,          \* how many responses the access log keeps
    log              \* the last logCap responses, oldest first

procVars == <<pc, op, key, body, conn, trigger_status, utc_now, image_url, records>>
storeVars == <<tables, control, images, blobs>>
histVars == <<leaked, failures, clock, nUploads, okUploads, pending, logCap, log>>
vars == <<procVars, storeVars, histVars>>

\* ---------------------------------------------------------------- helpers
Last(s) == s[Len(s)]

\* The JSON rendering of the "trigger" field of check_trigger's response.
TriggerJson(b) == IF b THEN "true" ELSE "false"

Entry(o, st, tr) == [op |-> o, status |-> st, trigger |-> tr]

\* The access log keeps the last logCap responses.
Logged(e) ==
    IF logCap = 0 THEN log
    ELSE IF Len(log) < logCap THEN Append(log, e)
    ELSE Append(SubSeq(log, 2, Len(log)), e)

\* A check that only requires the header to be present.
verify_api_key_present(k) == k # "missing"

\* key != API_KEY (line 30); a missing header is rejected by APIKeyHeader
\* with auto_error=True (line 26) before verify_api_key runs.
verify_api_key(k) == k # "missing" /\ k = API_KEY

\* A seed that overwrites the row: ON CONFLICT (id) DO UPDATE SET trigger_capture = FALSE.
CREATE_TABLE_QUERY_upsert(ctrl) ==
    {r \in ctrl : r.id # 1} \cup {[id |-> 1, trigger_capture |-> FALSE]}

\* CREATE_TABLE_QUERY: the seed row is inserted ON CONFLICT (id) DO NOTHING.
CREATE_TABLE_QUERY(ctrl) ==
    IF \E r \in ctrl : r.id = 1 THEN ctrl
    ELSE ctrl \cup {[id |-> 1, trigger_capture |-> FALSE]}

\* UPDATE camera_control SET trigger_capture = v WHERE id = 1
UpdateControl(ctrl, v) ==
    {IF r.id = 1 THEN [r EXCEPT !.trigger_capture = v] ELSE r : r \in ctrl}

\* SELECT trigger_capture FROM camera_control WHERE id = 1, then
\* record['trigger_capture'] if record else False
SelectTrigger(ctrl) ==
    IF \E r \in ctrl : r.id = 1
    THEN (CHOOSE r \in ctrl : r.id = 1).trigger_capture
    ELSE FALSE

\* The orderings of the positions of a sequence.
Perms(s) ==
    {f \in [1..Len(s) -> 1..Len(s)] : \A i, j \in 1..Len(s) : i # j => f[i] # f[j]}

\* SELECT image_url, captured_at FROM motion_images ORDER BY captured_at DESC:
\* the results the query may return (rows with equal captured_at come in
\* either order).
SelectImages(rows) ==
    {[i \in 1..Len(rows) |-> [image_url |-> rows[f[i]].image_url,
                               captured_at |-> rows[f[i]].captured_at]] : f \in
        {g \in Perms(rows) : \A i, j \in 1..Len(rows) :
            i < j => rows[g[i]].captured_at >= rows[g[j]].captured_at}}

Idle(p) == pc[p] = "idle"
AllIdle == \A p \in Procs : Idle(p)

\* A request ends: its locals are dropped and the response is logged.
Respond(p, st, tr) ==
    /\ pc' = [pc EXCEPT ![p] = "idle"]
    /\ op' = [op EXCEPT ![p] = "none"]
    /\ key' = [key EXCEPT ![p] = "missing"]
    /\ body' = [body EXCEPT ![p] = <<>>]
    /\ conn' = [conn EXCEPT ![p] = "none"]
    /\ trigger_status' = [trigger_status EXCEPT ![p] = FALSE]
    /\ utc_now' = [utc_now EXCEPT ![p] = 0]
    /\ image_url' = [image_url EXCEPT ![p] = 0]
    /\ records' = [records EXCEPT ![p] = <<>>]
    /\ log' = Logged(Entry(op[p], st, tr))
    /\ UNCHANGED logCap

Goto(p, l) == pc' = [pc EXCEPT ![p] = l]

\* A failure may be injected while the budget lasts.
MayFail == failures < MaxFailures

Start ==
    /\ pc = [p \in Procs |-> "idle"]
    /\ op = [p \in Procs |-> "none"]
    /\ key = [p \in Procs |-> "missing"]
    /\ body = [p \in Procs |-> <<>>]
    /\ conn = [p \in Procs |-> "none"]
    /\ trigger_status = [p \in Procs |-> FALSE]
    /\ utc_now = [p \in Procs |-> 0]
    /\ image_url = [p \in Procs |-> 0]
    /\ records = [p \in Procs |-> <<>>]
    /\ tables = FALSE
    /\ control = {}
    /\ images = <<>>
    /\ blobs = {}
    /\ leaked = 0
    /\ failures = 0
    /\ clock = 0
    /\ nUploads = 0
    /\ okUploads = 0
    /\ pending = FALSE
    /\ log = <<>>

\* The access log keeps the last response only.
Init == Start /\ logCap = 1

\* No access log is kept.
InitNoLog == Start /\ logCap = 0

\* The access log keeps a history of MaxLog responses.
InitHistory == Start /\ logCap = MaxLog

\* ---------------------------------------------------------------- requests
\* A request arrives at an idle worker.
Arrive(p, ops) ==
    /\ Idle(p)
    /\ \E o \in ops, k \in Keys, b \in Bodies :
        /\ o # "upload_image" => b = <<>>
        /\ (o = "upload_image" /\ b # <<>>) => nUploads < MaxUploads
        /\ op' = [op EXCEPT ![p] = o]
        /\ key' = [key EXCEPT ![p] = k]
        /\ body' = [body EXCEPT ![p] = b]
        /\ nUploads' = IF o = "upload_image" /\ b # <<>> THEN nUploads + 1 ELSE nUploads
    /\ Goto(p, "auth")
    /\ UNCHANGED <<conn, trigger_status, utc_now, image_url, records, storeVars,
                   leaked, failures, clock, okUploads, pending, logCap, log>>

Receive(p) == Arrive(p, Ops)

\* The entry point of each handler.
Entry_pc(o) == IF o = "upload_image" THEN "up_body" ELSE "connect"

\* dependencies=[Depends(verify_api_key)]: the key passes, the handler starts.
AuthOk(p) ==
    /\ pc[p] = "auth"
    /\ verify_api_key(key[p])
    /\ Goto(p, Entry_pc(op[p]))
    /\ UNCHANGED <<op, key, body, conn, trigger_status, utc_now, image_url, records,
                   storeVars, histVars>>

\* HTTPException(status_code=403): the handler never runs.
AuthFail(p) ==
    /\ pc[p] = "auth"
    /\ ~verify_api_key(key[p])
    /\ Respond(p, 403, "none")
    /\ UNCHANGED <<storeVars, leaked, failures, clock, nUploads, okUploads, pending>>

\* ------------------------------------------------------- get_db_connection
\* The statement that follows `conn = await get_db_connection()` in each handler.
AfterConnect(o) ==
    CASE o = "trigger_capture" -> "tc_update"
      [] o = "check_trigger" -> "ct_select"
      [] o = "upload_image" -> "up_insert"
      [] OTHER -> "gi_fetch"

\* conn = await asyncpg.connect(DATABASE_URL)
Connect(p) ==
    /\ pc[p] = "connect"
    /\ conn' = [conn EXCEPT ![p] = "open"]
    /\ Goto(p, "schema")
    /\ UNCHANGED <<op, key, body, trigger_status, utc_now, image_url, records,
                   storeVars, histVars>>

\* asyncpg.connect raises: HTTPException(500), no connection was opened.
ConnectFail(p) ==
    /\ pc[p] = "connect"
    /\ MayFail
    /\ failures' = failures + 1
    /\ Respond(p, 500, "none")
    /\ UNCHANGED <<storeVars, leaked, clock, nUploads, okUploads, pending>>

\* await conn.execute(CREATE_TABLE_QUERY); return conn
Schema(p) ==
    /\ pc[p] = "schema"
    /\ tables' = TRUE
    /\ control' = CREATE_TABLE_QUERY(control)
    /\ Goto(p, AfterConnect(op[p]))
    /\ UNCHANGED <<op, key, body, conn, trigger_status, utc_now, image_url, records,
                   images, blobs, histVars>>

\* conn.execute(CREATE_TABLE_QUERY) raises: the except clause raises
\* HTTPException(500) and conn, which is open, is dropped without close().
SchemaFail(p) ==
    /\ pc[p] = "schema"
    /\ MayFail
    /\ failures' = failures + 1
    /\ leaked' = leaked + 1
    /\ Respond(p, 500, "none")
    /\ UNCHANGED <<storeVars, clock, nUploads, okUploads, pending>>

\* --------------------------------------------------------- trigger_capture
\* An update that flips the flag: SET trigger_capture = NOT trigger_capture.
TriggerUpdateToggle(p) ==
    /\ pc[p] = "tc_update"
    /\ control' = UpdateControl(control, ~SelectTrigger(control))
    /\ pending' = TRUE
    /\ Goto(p, "tc_close")
    /\ UNCHANGED <<op, key, body, conn, trigger_status, utc_now, image_url, records,
                   tables, images, blobs, leaked, failures, clock, nUploads,
                   okUploads, logCap, log>>

\* UPDATE camera_control SET trigger_capture = TRUE WHERE id = 1
TriggerUpdate(p) ==
    /\ pc[p] = "tc_update"
    /\ control' = UpdateControl(control, TRUE)
    /\ pending' = TRUE
    /\ Goto(p, "tc_close")
    /\ UNCHANGED <<op, key, body, conn, trigger_status, utc_now, image_url, records,
                   tables, images, blobs, leaked, failures, clock, nUploads,
                   okUploads, logCap, log>>

\* The UPDATE raises: nothing catches it, the response is 500, conn stays open.
TriggerUpdateFail(p) ==
    /\ pc[p] = "tc_update"
    /\ MayFail
    /\ failures' = failures + 1
    /\ leaked' = leaked + 1
    /\ Respond(p, 500, "none")
    /\ UNCHANGED <<storeVars, clock, nUploads, okUploads, pending>>

\* await conn.close(); return JSONResponse(..., status_code=200)
TriggerClose(p) ==
    /\ pc[p] = "tc_close"
    /\ Respond(p, 200, "none")
    /\ UNCHANGED <<storeVars, leaked, failures, clock, nUploads, okUploads, pending>>

\* conn.close() raises (the connection is aborted by the driver): 500.
TriggerCloseFail(p) ==
    /\ pc[p] = "tc_close"
    /\ MayFail
    /\ failures' = failures + 1
    /\ Respond(p, 500, "none")
    /\ UNCHANGED <<storeVars, leaked, clock, nUploads, okUploads, pending>>

\* ----------------------------------------------------------- check_trigger
\* record = await conn.fetchrow(SELECT ...); trigger_status = ...;
\* if trigger_status: (the UPDATE is the next statement) else close.
CheckSelect(p) ==
    /\ pc[p] = "ct_select"
    /\ trigger_status' = [trigger_status EXCEPT ![p] = SelectTrigger(control)]
    /\ Goto(p, IF SelectTrigger(control) THEN "ct_update" ELSE "ct_close")
    /\ UNCHANGED <<op, key, body, conn, utc_now, image_url, records,
                   storeVars, histVars>>

\* A poll that does not clear the flag it read.
CheckUpdateNoClear(p) ==
    /\ pc[p] = "ct_update"
    /\ Goto(p, "ct_close")
    /\ UNCHANGED <<op, key, body, conn, trigger_status, utc_now, image_url, records,
                   storeVars, histVars>>

\* UPDATE camera_control SET trigger_capture = FALSE WHERE id = 1
CheckUpdate(p) ==
    /\ pc[p] = "ct_update"
    /\ control' = UpdateControl(control, FALSE)
    /\ Goto(p, "ct_close")
    /\ UNCHANGED <<op, key, body, conn, trigger_status, utc_now, image_url, records,
                   tables, images, blobs, histVars>>

\* The SELECT or the UPDATE raises: 500, conn stays open.
CheckStatementFail(p) ==
    /\ pc[p] \in {"ct_select", "ct_update"}
    /\ MayFail
    /\ failures' = failures + 1
    /\ leaked' = leaked + 1
    /\ Respond(p, 500, "none")
    /\ UNCHANGED <<storeVars, clock, nUploads, okUploads, pending>>

\* A poll that returns the flag as it is after the clearing.
CheckResultAfterClear(p) == SelectTrigger(control)

\* The value check_trigger returns in {"trigger": ...}.
CheckResult(p) == trigger_status[p]

\* await conn.close(); return JSONResponse(content={"trigger": trigger_status})
CheckClose(p) ==
    /\ pc[p] = "ct_close"
    /\ pending' = IF CheckResult(p) THEN FALSE ELSE pending
    /\ Respond(p, 200, TriggerJson(CheckResult(p)))
    /\ UNCHANGED <<storeVars, leaked, failures, clock, nUploads, okUploads>>

\* conn.close() raises: 500, the value read is not returned.
CheckCloseFail(p) ==
    /\ pc[p] = "ct_close"
    /\ MayFail
    /\ failures' = failures + 1
    /\ Respond(p, 500, "none")
    /\ UNCHANGED <<storeVars, leaked, clock, nUploads, okUploads, pending>>

\* ------------------------------------------------------------ upload_image
\* filename = f"motion-capture-{utc_now.strftime('%Y%m%d_%H%M%S_%f')}.jpg"
FileName(t) == <<"motion-capture-", t, ".jpg">>

\* put(filename, image_bytes, ...): the store keeps the object under a URL of its own.
BlobUrl(store) == Cardinality(store) + 1

\* The status of the response to an empty body: HTTPException(400) is raised
\* inside the try block and `except Exception` turns it into a 500 response.
EmptyBodyStatus == 500

\* image_bytes = await request.body(); if not image_bytes: raise ...
UploadEmpty(p) ==
    /\ pc[p] = "up_body"
    /\ Len(body[p]) = 0
    /\ Respond(p, EmptyBodyStatus, "none")
    /\ UNCHANGED <<storeVars, leaked, failures, clock, nUploads, okUploads, pending>>

\* utc_now = datetime.now(utc); blob_result = put(...); image_url = blob_result['url']
UploadPut(p) ==
    /\ pc[p] = "up_body"
    /\ Len(body[p]) > 0
    /\ \E t \in clock..MaxClock :
        /\ clock' = t
        /\ utc_now' = [utc_now EXCEPT ![p] = t]
        /\ blobs' = blobs \cup {[url |-> BlobUrl(blobs), name |-> FileName(t)]}
    /\ image_url' = [image_url EXCEPT ![p] = BlobUrl(blobs)]
    /\ Goto(p, "connect")
    /\ UNCHANGED <<op, key, body, conn, trigger_status, records, tables, control,
                   images, leaked, failures, nUploads, okUploads, pending, logCap, log>>

\* A failed put that is not noticed: the handler goes on with a URL nothing
\* is stored under.
UploadPutFailIgnored(p) ==
    /\ pc[p] = "up_body"
    /\ Len(body[p]) > 0
    /\ MayFail
    /\ failures' = failures + 1
    /\ image_url' = [image_url EXCEPT ![p] = BlobUrl(blobs)]
    /\ Goto(p, "connect")
    /\ UNCHANGED <<op, key, body, conn, trigger_status, utc_now, records, storeVars,
                   leaked, clock, nUploads, okUploads, pending, logCap, log>>

\* put raises: the except clause answers 500; nothing was stored.
UploadPutFail(p) ==
    /\ pc[p] = "up_body"
    /\ Len(body[p]) > 0
    /\ MayFail
    /\ failures' = failures + 1
    /\ Respond(p, 500, "none")
    /\ UNCHANGED <<storeVars, leaked, clock, nUploads, okUploads, pending>>

\* INSERT INTO motion_images (image_url, captured_at) VALUES ($1, $2)
UploadInsert(p) ==
    /\ pc[p] = "up_insert"
    /\ images' = Append(images, [id |-> Len(images) + 1,
                                  image_url |-> image_url[p],
                                  captured_at |-> utc_now[p]])
    /\ Goto(p, "up_close")
    /\ UNCHANGED <<op, key, body, conn, trigger_status, utc_now, image_url, records,
                   tables, control, blobs, histVars>>

\* The INSERT raises: the except clause answers 500, conn stays open.
UploadInsertFail(p) ==
    /\ pc[p] = "up_insert"
    /\ MayFail
    /\ failures' = failures + 1
    /\ leaked' = leaked + 1
    /\ Respond(p, 500, "none")
    /\ UNCHANGED <<storeVars, clock, nUploads, okUploads, pending>>

\* await conn.close(); return JSONResponse(..., status_code=201)
UploadClose(p) ==
    /\ pc[p] = "up_close"
    /\ okUploads' = okUploads + 1
    /\ Respond(p, 201, "none")
    /\ UNCHANGED <<storeVars, leaked, failures, clock, nUploads, pending>>

\* conn.close() raises after the INSERT: the except clause answers 500.
UploadCloseFail(p) ==
    /\ pc[p] = "up_close"
    /\ MayFail
    /\ failures' = failures + 1
    /\ Respond(p, 500, "none")
    /\ UNCHANGED <<storeVars, leaked, clock, nUploads, okUploads, pending>>

\* -------------------------------------------------------------- get_images
\* record["captured_at"].isoformat()
IsoFormat(t) == <<"iso", t>>

\* [{"url": record["image_url"], "timestamp": ...isoformat()} for record in records]
ImagesJson(rs) ==
    [i \in 1..Len(rs) |-> [url |-> rs[i].image_url,
                           timestamp |-> IsoFormat(rs[i].captured_at)]]

\* records = await conn.fetch(SELECT ... ORDER BY captured_at DESC)
GetImagesFetch(p) ==
    /\ pc[p] = "gi_fetch"
    /\ \E rs \in SelectImages(images) : records' = [records EXCEPT ![p] = rs]
    /\ Goto(p, "gi_close")
    /\ UNCHANGED <<op, key, body, conn, trigger_status, utc_now, image_url,
                   storeVars, histVars>>

\* The SELECT raises: the except clause answers 500, conn stays open.
GetImagesFetchFail(p) ==
    /\ pc[p] = "gi_fetch"
    /\ MayFail
    /\ failures' = failures + 1
    /\ leaked' = leaked + 1
    /\ Respond(p, 500, "none")
    /\ UNCHANGED <<storeVars, clock, nUploads, okUploads, pending>>

\* await conn.close(); return JSONResponse(content={"images": images})
GetImagesClose(p) ==
    /\ pc[p] = "gi_close"
    /\ Respond(p, 200, "none")
    /\ UNCHANGED <<storeVars, leaked, failures, clock, nUploads, okUploads, pending>>

\* conn.close() raises: the except clause answers 500.
GetImagesCloseFail(p) ==
    /\ pc[p] = "gi_close"
    /\ MayFail
    /\ failures' = failures + 1
    /\ Respond(p, 500, "none")
    /\ UNCHANGED <<storeVars, leaked, clock, nUploads, okUploads, pending>>

\* ---------------------------------------------------------- specifications
\* One step of the request worker p is serving.
Step(p) ==
    \/ AuthOk(p) \/ AuthFail(p)
    \/ Connect(p) \/ ConnectFail(p)
    \/ Schema(p) \/ SchemaFail(p)
    \/ TriggerUpdate(p) \/ TriggerUpdateFail(p)
    \/ TriggerClose(p) \/ TriggerCloseFail(p)
    \/ CheckSelect(p) \/ CheckUpdate(p) \/ CheckStatementFail(p)
    \/ CheckClose(p) \/ CheckCloseFail(p)
    \/ UploadEmpty(p) \/ UploadPut(p) \/ UploadPutFail(p)
    \/ UploadInsert(p) \/ UploadInsertFail(p)
    \/ UploadClose(p) \/ UploadCloseFail(p)
    \/ GetImagesFetch(p) \/ GetImagesFetchFail(p)
    \/ GetImagesClose(p) \/ GetImagesCloseFail(p)

\* Requests are served concurrently.
Next == \E p \in Procs : Receive(p) \/ Step(p)

Spec == Init /\ [][Next]_vars

\* Requests are issued one after the other: a request arrives only when no
\* other request is in flight.
ReceiveSeq(p) == AllIdle /\ Arrive(p, Ops)

NextSeq == \E p \in Procs : ReceiveSeq(p) \/ Step(p)

SeqSpec == Init /\ [][NextSeq]_vars

\* The two endpoints of the trigger flag alone.
FlagOps == {"trigger_capture", "check_trigger"}

FlagStep(p) ==
    \/ AuthOk(p) \/ AuthFail(p)
    \/ Connect(p) \/ ConnectFail(p)
    \/ Schema(p) \/ SchemaFail(p)
    \/ TriggerUpdate(p) \/ TriggerUpdateFail(p)
    \/ TriggerClose(p) \/ TriggerCloseFail(p)
    \/ CheckSelect(p) \/ CheckUpdate(p) \/ CheckStatementFail(p)
    \/ CheckClose(p) \/ CheckCloseFail(p)

\* Trigger and poll requests issued one after the other, with a history kept.
ReceiveFlagSeq(p) == AllIdle /\ Arrive(p, FlagOps)

NextFlagSeq == \E p \in Procs : ReceiveFlagSeq(p) \/ FlagStep(p)

FlagSeqSpec == InitHistory /\ [][NextFlagSeq]_vars

\* Trigger and poll requests served concurrently; every request in flight
\* runs on (the event loop resumes each coroutine whose await completes) and
\* polls with the right key keep arriving.
ReceiveFlag(p) == Arrive(p, FlagOps)

PollArrives(p) ==
    /\ Arrive(p, {"check_trigger"})
    /\ key'[p] = API_KEY

NextFlag == \E p \in Procs : ReceiveFlag(p) \/ FlagStep(p)

FairSpec ==
    /\ InitNoLog
    /\ [][NextFlag]_vars
    /\ \A p \in Procs : WF_vars(FlagStep(p))
    /\ SF_vars(\E p \in Procs : PollArrives(p))

\* ------------------------------------------------------------------ claims
\* The flag as a SELECT would read it now.
Flag == SelectTrigger(control)

\* Connections that are open: those held by requests in flight and those
\* dropped without close().
OpenConnections == leaked + Cardinality({p \in Procs : conn[p] = "open"})

\* Request p is answered in this step.
Answered(p) == pc[p] # "idle" /\ pc'[p] = "idle"

IsOk(e, o) == e.op = o /\ e.status = 200
IsTrigger(e) == IsOk(e, "trigger_capture")
IsPoll(e) == IsOk(e, "check_trigger")

\* C1: a poll answers true only when a trigger update was committed and no
\* poll has answered true since: at most one poll answers true per trigger.
C1_AtMostOneTrue ==
    [][\A p \in Procs :
          (Answered(p) /\ op[p] = "check_trigger" /\ Last(log').trigger = "true")
              => pending]_vars

\* C2: an upload with a valid key and an empty body is answered 400, and it
\* writes no blob and inserts no record.
C2_EmptyUploadIs400 ==
    [][\A p \in Procs :
          (Answered(p) /\ pc[p] = "up_body" /\ Len(body[p]) = 0)
              => /\ Last(log').status = 400
                 /\ UNCHANGED <<blobs, images>>]_vars

\* C3: once every request has finished, no connection is open.
C3_NoConnectionLeft == AllIdle => OpenConnections = 0

\* C4: in the sequential history, a poll answered right after an answered
\* trigger request returns true, a poll answered right after that one returns
\* false, and the flag is false once the delivering poll has finished.
C4_DeliveredOnce ==
    \A i \in 1..Len(log) :
        (i + 1 <= Len(log) /\ IsTrigger(log[i]) /\ IsPoll(log[i + 1]))
            => /\ log[i + 1].trigger = "true"
               /\ (i + 2 <= Len(log) /\ IsPoll(log[i + 2]))
                      => log[i + 2].trigger = "false"
               /\ (i + 1 = Len(log) /\ AllIdle) => ~Flag

C4_Witness ==
    /\ Len(log) >= 3
    /\ IsTrigger(log[Len(log) - 2])
    /\ IsPoll(log[Len(log) - 1]) /\ log[Len(log) - 1].trigger = "true"
    /\ IsPoll(log[Len(log)]) /\ log[Len(log)].trigger = "false"

\* C5: in the sequential history, after a run of k >= 1 answered trigger
\* requests, the polls that follow (no trigger request among them) return
\* true exactly once, on the first of them.
C5_SingleSlot ==
    \A i, j, m \in 1..Len(log) :
        (/\ i <= j /\ j < m
         /\ \A x \in i..j : IsTrigger(log[x])
         /\ \A x \in (j + 1)..m : IsPoll(log[x]))
            => /\ log[j + 1].trigger = "true"
               /\ Cardinality({x \in (j + 1)..m : log[x].trigger = "true"}) = 1

\* Two trigger requests in a row were followed by a poll, and the flag is down.
C5_Witness ==
    /\ Len(log) = 3
    /\ IsTrigger(log[1]) /\ IsTrigger(log[2])
    /\ IsPoll(log[3]) /\ log[3].trigger = "true"
    /\ AllIdle /\ ~Flag

\* C6: while no storage failure occurs, a committed trigger update leads to a
\* poll answered true at or after the commit, and the flag is never cleared
\* by a poll that is then answered false.
C6_TriggerNotLost ==
    /\ (pending /\ failures = 0) ~> (~pending \/ failures > 0)
    /\ [][\A p \in Procs :
             (Answered(p) /\ pc[p] = "ct_close" /\ failures' = failures
                 /\ ~CheckResult(p))
                 => ~trigger_status[p]]_vars
    /\ [][(Flag /\ ~Flag') =>
             \E p \in Procs : pc[p] = "ct_update" /\ trigger_status[p]
                              /\ pc'[p] = "ct_close" /\ trigger_status'[p]]_vars

\* Two polls have read the pending trigger; one of them has answered true
\* and the other has cleared the flag and is about to answer.
C6_Witness ==
    /\ failures = 0
    /\ tables /\ ~pending /\ ~Flag
    /\ \E p \in Procs : pc[p] = "ct_close" /\ trigger_status[p]

\* C7: a request whose key is missing or wrong is answered 403 and never
\* enters its handler: it holds no connection, and the step that answers it
\* leaves the tables, the blob store and the open connections as they are.
C7_ForbiddenBeforeStorage ==
    [][/\ \A p \in Procs :
            key[p] # API_KEY => (pc[p] \in {"idle", "auth"} /\ conn[p] = "none")
       /\ \A p \in Procs :
            (pc[p] = "auth" /\ key[p] # API_KEY /\ pc'[p] # "auth")
                => /\ pc'[p] = "idle"
                   /\ Last(log') = Entry(op[p], 403, "none")
                   /\ UNCHANGED <<storeVars, conn, leaked>>]_vars

\* A request was refused while a trigger was pending and an image was stored.
C7_Witness ==
    /\ Len(log) > 0 /\ Last(log).status = 403
    /\ Flag
    /\ Len(images) > 0 /\ blobs # {}

\* The timestamp an ISO string stands for.
FromIso(x) == x[2]

SortedDesc(js) ==
    \A i, j \in 1..Len(js) :
        i < j => FromIso(js[i].timestamp) >= FromIso(js[j].timestamp)

\* C8: a list request that is answered returns as many records as uploads
\* were answered 201 before it, most recent first.
C8_ListsSuccessfulUploads ==
    [][\A p \in Procs :
          (Answered(p) /\ op[p] = "get_images" /\ Last(log').status = 200)
              => /\ Len(ImagesJson(records[p])) = okUploads
                 /\ SortedDesc(ImagesJson(records[p]))]_vars

UrlsOf(store) == {b.url : b \in store}
RecordUrls(rows) == {rows[i].image_url : i \in 1..Len(rows)}

\* C9: every image record refers to a stored blob and is inserted after the
\* blob was written; no blob is ever removed; an upload whose blob write fails
\* is answered 500 with nothing stored; an upload whose connection, schema
\* statement or insert fails after the blob write is answered 500 and leaves
\* the blob without a record.
C9_BlobBeforeRecord ==
    [][/\ RecordUrls(images) \subseteq UrlsOf(blobs)
       /\ RecordUrls(images') \subseteq UrlsOf(blobs')
       /\ blobs \subseteq blobs'
       /\ images' # images =>
            \E p \in Procs :
                /\ pc[p] = "up_insert"
                /\ image_url[p] \in UrlsOf(blobs)
                /\ Len(images') = Len(images) + 1
                /\ Last(images').image_url = image_url[p]
       /\ \A p \in Procs :
            (Answered(p) /\ pc[p] = "up_body" /\ Len(body[p]) > 0)
                => /\ Last(log').status = 500
                   /\ UNCHANGED <<blobs, images>>
       /\ \A p \in Procs :
            (/\ Answered(p) /\ op[p] = "upload_image"
             /\ pc[p] \in {"connect", "schema", "up_insert"})
                => /\ Last(log').status = 500
                   /\ UNCHANGED <<blobs, images>>
                   /\ image_url[p] \in UrlsOf(blobs')
                   /\ image_url[p] \notin RecordUrls(images')]_vars

\* An upload failed after its blob was written: the blob has no record.
C9_Witness ==
    /\ AllIdle
    /\ Len(log) > 0 /\ Last(log) = Entry("upload_image", 500, "none")
    /\ leaked = 1
    /\ \E b \in blobs : b.url \notin RecordUrls(images)

OneControlRow(ctrl) ==
    /\ Cardinality(ctrl) = 1
    /\ \E r \in ctrl : r.id = 1

\* C10: once the schema was initialized camera_control holds exactly the row
\* with id = 1; the first initialization seeds it with FALSE; every later
\* initialization leaves the flag and the image records as they are.
C10_InitIdempotent ==
    [][/\ tables => OneControlRow(control)
       /\ tables' => OneControlRow(control')
       /\ \A p \in Procs :
            (pc[p] = "schema" /\ pc'[p] \notin {"schema", "idle"})
                => /\ tables'
                   /\ images' = images
                   /\ tables => control' = control
                   /\ ~tables => control' = {[id |-> 1, trigger_capture |-> FALSE]}]_vars

\* A request has initialized the schema again while a trigger is pending and
\* an image is stored.
C10_Witness ==
    /\ Flag /\ pending
    /\ Len(images) > 0
    /\ \E p \in Procs :
        /\ pc[p] = "gi_fetch"
        /\ \A q \in Procs \ {p} : Idle(q)

====
